---------------------------- MODULE Spec2Model ----------------------------
(***************************************************************************)
(* TDC Mark III simulation engine (patrolReports/tdc_simulator/            *)
(* tdc_engine.js): the engine object, setInputs / initialize / step, the   *)
(* Position Keeper and the Angle Solver, in both definitions of the class  *)
(* TDCMarkIII that the file holds (the full torpedo-path solver and the    *)
(* simplified solver), and the component classes Differential, Integrator, *)
(* Resolver and Cam.                                                       *)
(*                                                                         *)
(* Specifications:                                                         *)
(*     Spec      one instance, any calls of setInputs, initialize, step    *)
(*     SpecRun   a scenario is set and initialized, then stepped; a second *)
(*               instance runs the mirror image                            *)
(*     SpecPair  two instances, calls on them in any order                 *)
(*     SpecPrim  one component of each class, update and reset calls       *)
(*     SpecKeeper  two instances in step, the integrals of one disturbed   *)
(*     SpecFrame   two instances in step, new bearing and range for one    *)
(*     SpecRandom  two instances in step, with different random numbers    *)
(*                                                                         *)
(* Numbers.  The engine computes in IEEE doubles.  The model computes in   *)
(* fixed point, with these units:                                          *)
(*     angles             1/AU degree         (0.0001 deg)                 *)
(*     sines and cosines  1/TrigScale                                      *)
(*     positions          milliyards          (0.001 yd)                   *)
(*     ranges, errors     deciyards           (0.1 yd)                     *)
(*     speeds             knots (inputs), milliyards per second            *)
(*     run times          centiseconds                                     *)
(*     servo velocity     1/AU degree per second                           *)
(*     time               deciseconds         (0.1 s)                      *)
(* Every rounding is half away from zero, so that the arithmetic itself    *)
(* is symmetric under negation, as the doubles' arithmetic is.             *)
(*                                                                         *)
(* A double that is not an ordinary fixed-point value is one of            *)
(*     NaN, PosInf, NegInf      the IEEE specials                          *)
(*     a tier value m * Omega   a finite double far beyond the fixed-point *)
(*                              window: Omega is a magnitude (1e200, say)  *)
(*                              whose square overflows to Infinity and     *)
(*                              that absorbs every ordinary addend; m is   *)
(*                              an ordinary mantissa in the quantity's     *)
(*                              unit.                                      *)
(* and the F* operators below follow IEEE 754 on them.                     *)
(***************************************************************************)
EXTENDS Integers, Sequences, FiniteSets, TLC

---------------------------------------------------------------------------
(* The doubles *)

\* ordinary values are the integers strictly between -Lim and Lim
Lim == 1000000000
NaN == 2147483647
PosInf == 2147483646
NegInf == -2147483646

IsNaN(x) == x = NaN
IsInf(x) == x = PosInf \/ x = NegInf
IsNum(x) == x > -Lim /\ x < Lim
IsTier(x) == ~IsNum(x) /\ ~IsNaN(x) /\ ~IsInf(x)
\* Number.isFinite
IsFinite(x) == IsNum(x) \/ IsTier(x)

\* the mantissa of a tier value, and the tier value of a mantissa
Mant(x) == IF x > 0 THEN x - Lim ELSE x + Lim
Tier(m) == IF m = 0 THEN 0 ELSE IF m > 0 THEN Lim + m ELSE m - Lim

\* Op applied to the value of x, of x and y: a const of the code, computed
\* once.  (TLC computes a LET definition again at every use of its name,
\* and the value of a bound variable once.)
Once(x, Op(_)) == CHOOSE r \in {Op(v) : v \in {x}} : TRUE
Once2(x, y, Op(_, _)) == CHOOSE r \in {Op(u, v) : u \in {x}, v \in {y}} : TRUE

Abs(n) == IF n < 0 THEN -n ELSE n
Sgn(n) == IF n > 0 THEN 1 ELSE IF n < 0 THEN -1 ELSE 0
\* n / d rounded half away from zero (d > 0)
Rnd(n, d) == Sgn(n) * ((Abs(n) + d \div 2) \div d)

\* the sign of a double: -1, 0, 1; of NaN, NaN (Math.sign)
FSign(x) ==
    IF IsNaN(x) THEN NaN
    ELSE IF IsNum(x) THEN Sgn(x)
    ELSE IF x > 0 THEN 1 ELSE -1

FNeg(x) == IF IsNaN(x) THEN NaN ELSE -x

\* Math.abs
FAbs(x) == IF IsNaN(x) THEN NaN ELSE Abs(x)

\* x < y on doubles: false when either is NaN.  Tier values lie between
\* the ordinary values and the infinities; two tier values of one sign
\* compare by mantissa.
FLt(x, y) == ~IsNaN(x) /\ ~IsNaN(y) /\ x < y
FGt(x, y) == FLt(y, x)
FLe(x, y) == ~IsNaN(x) /\ ~IsNaN(y) /\ x <= y

\* Math.max, Math.min: NaN if either argument is NaN
FMax(x, y) == IF IsNaN(x) \/ IsNaN(y) THEN NaN ELSE IF x > y THEN x ELSE y
FMin(x, y) == IF IsNaN(x) \/ IsNaN(y) THEN NaN ELSE IF x < y THEN x ELSE y

\* x + y
FAdd(x, y) ==
    IF IsNaN(x) \/ IsNaN(y) THEN NaN
    ELSE IF IsInf(x) THEN (IF IsInf(y) /\ y # x THEN NaN ELSE x)
    ELSE IF IsInf(y) THEN y
    ELSE IF IsNum(x) /\ IsNum(y) THEN x + y
    ELSE IF IsNum(y) THEN x
    ELSE IF IsNum(x) THEN y
    ELSE Tier(Mant(x) + Mant(y))

FSub(x, y) == FAdd(x, FNeg(y))

\* x * y / s for a fixed-point scale s > 0: the product of two doubles, x
\* in its unit and y in units of 1/s
FMul(x, y, s) ==
    IF IsNaN(x) \/ IsNaN(y) THEN NaN
    ELSE IF IsInf(x) \/ IsInf(y)
         THEN (IF x = 0 \/ y = 0 THEN NaN
               ELSE IF FSign(x) = FSign(y) THEN PosInf ELSE NegInf)
    ELSE IF IsNum(x) /\ IsNum(y) THEN Rnd(x * y, s)
    ELSE IF IsTier(x) /\ IsTier(y)
         THEN (IF FSign(x) = FSign(y) THEN PosInf ELSE NegInf)
    ELSE IF IsTier(x) THEN Tier(Rnd(Mant(x) * y, s))
    ELSE Tier(Rnd(x * Mant(y), s))

\* x * s / y: the quotient of two doubles, the result in x's unit when y
\* is in units of 1/s
FDiv(x, y, s) ==
    IF IsNaN(x) \/ IsNaN(y) THEN NaN
    ELSE IF IsInf(x)
         THEN (IF IsInf(y) THEN NaN
               ELSE IF (x > 0) = (y >= 0) THEN PosInf ELSE NegInf)
    ELSE IF IsInf(y) THEN 0
    ELSE IF y = 0
         THEN (IF x = 0 THEN NaN ELSE IF x > 0 THEN PosInf ELSE NegInf)
    ELSE IF IsNum(x) /\ IsNum(y) THEN Sgn(y) * Rnd(x * s, Abs(y))
    ELSE IF IsTier(x) /\ IsTier(y)
         THEN Sgn(Mant(y)) * Rnd(Mant(x) * s, Abs(Mant(y)))
    ELSE IF IsTier(x) THEN Tier(Sgn(y) * Rnd(Mant(x) * s, Abs(y)))
    ELSE 0

---------------------------------------------------------------------------
(* Math.sin, Math.cos, Math.sqrt, Math.atan2 *)

TrigScale == 10000
\* angle units per degree
AU == 10000
Deg(n) == n * AU

\* sin(d degrees) * TrigScale for d = 0 .. 90, at index d + 1
SinTable == <<
    0, 175, 349, 523, 698, 872, 1045, 1219, 1392, 1564, 1736, 1908, 2079, 2250,
    2419, 2588, 2756, 2924, 3090, 3256, 3420, 3584, 3746, 3907, 4067, 4226, 4384,
    4540, 4695, 4848, 5000, 5150, 5299, 5446, 5592, 5736, 5878, 6018, 6157, 6293,
    6428, 6561, 6691, 6820, 6947, 7071, 7193, 7314, 7431, 7547, 7660, 7771, 7880,
    7986, 8090, 8192, 8290, 8387, 8480, 8572, 8660, 8746, 8829, 8910, 8988, 9063,
    9135, 9205, 9272, 9336, 9397, 9455, 9511, 9563, 9613, 9659, 9703, 9744, 9781,
    9816, 9848, 9877, 9903, 9925, 9945, 9962, 9976, 9986, 9994, 9998, 10000 >>

\* the sine of an angle a of the first quadrant, 0 <= a <= Deg(90),
\* interpolated between the whole degrees of the table
SinQ(a) ==
    LET d == a \div AU
        f == a % AU
    IN  IF f = 0 THEN SinTable[d + 1]
        ELSE SinTable[d + 1] + Rnd((SinTable[d + 2] - SinTable[d + 1]) * f, AU)

\* Math.sin(x * Math.PI / 180); NaN for NaN and the infinities.  (No angle
\* of the engine is a tier value: the angle inputs are ordinary, and every
\* other angle comes from atan2 or from the clamp.)
SinDeg(x) ==
    IF ~IsNum(x) THEN NaN
    ELSE LET r == Abs(x) % Deg(360)
             s == IF r <= Deg(90) THEN SinQ(r)
                  ELSE IF r <= Deg(180) THEN SinQ(Deg(180) - r)
                  ELSE IF r <= Deg(270) THEN -SinQ(r - Deg(180))
                  ELSE -SinQ(Deg(360) - r)
         IN  IF x < 0 THEN -s ELSE s

\* Math.cos(x * Math.PI / 180)
CosDeg(x) == IF ~IsNum(x) THEN NaN ELSE SinDeg(Abs(x) + Deg(90))

\* the integer square root of n in 0 .. 2^31 - 1, rounded to nearest
RECURSIVE IsqrtBetween(_, _, _)
IsqrtBetween(n, lo, hi) ==
    IF lo >= hi THEN lo
    ELSE LET mid == (lo + hi + 1) \div 2
         IN  IF mid * mid <= n THEN IsqrtBetween(n, mid, hi)
             ELSE IsqrtBetween(n, lo, mid - 1)

Isqrt(n) ==
    Once(IsqrtBetween(n, 0, 46340), LAMBDA r :
        IF r < 46340 /\ (r + 1) * (r + 1) - n <= n - r * r THEN r + 1 ELSE r)

\* Math.sqrt(x * x + y * y), in the unit of x and y.  The square of a tier
\* value overflows to Infinity.  Ordinary values are scaled into the 31-bit
\* window before they are squared.
HypotScale == 30000

Hypot(x, y) ==
    IF IsNaN(x) \/ IsNaN(y) THEN NaN
    ELSE IF ~IsNum(x) \/ ~IsNum(y) THEN PosInf
    ELSE LET m == IF Abs(x) > Abs(y) THEN Abs(x) ELSE Abs(y)
             k == m \div HypotScale + 1
             u == Rnd(x, k)
             v == Rnd(y, k)
         IN  Isqrt(u * u + v * v) * k

\* the angle a in 0 .. Deg(90) with tan a = u / v (u, v >= 0, not both 0):
\* the largest a with sin a * v <= cos a * u
RECURSIVE AtanBetween(_, _, _, _)
AtanBetween(u, v, lo, hi) ==
    IF lo >= hi THEN lo
    ELSE LET mid == (lo + hi + 1) \div 2
         IN  IF SinQ(mid) * v <= SinQ(Deg(90) - mid) * u
             THEN AtanBetween(u, v, mid, hi)
             ELSE AtanBetween(u, v, lo, mid - 1)

AtanScale == 200000

\* the magnitude class of a double: 0 ordinary, 1 tier, 2 infinite
Level(x) == IF IsNum(x) THEN 0 ELSE IF IsInf(x) THEN 2 ELSE 1
\* x relative to magnitude class l: 0 when x is of a lower class
Lead(x, l) ==
    IF Level(x) < l THEN 0
    ELSE IF l = 0 THEN x ELSE IF l = 1 THEN Mant(x) ELSE FSign(x)

\* Math.atan2(y, x) * 180 / Math.PI, in -Deg(180) .. Deg(180)
Atan2Deg(y, x) ==
    IF IsNaN(y) \/ IsNaN(x) THEN NaN
    ELSE LET l  == IF Level(y) > Level(x) THEN Level(y) ELSE Level(x)
             yy == Lead(y, l)
             xx == Lead(x, l)
             m  == IF Abs(yy) > Abs(xx) THEN Abs(yy) ELSE Abs(xx)
             k  == m \div AtanScale + 1
             u  == Rnd(Abs(yy), k)
             v  == Rnd(Abs(xx), k)
             a  == IF u = 0 THEN 0
                   ELSE IF v = 0 THEN Deg(90)
                   ELSE AtanBetween(u, v, 0, Deg(90))
         IN  IF yy = 0 THEN (IF xx < 0 THEN Deg(180) ELSE 0)
             ELSE IF xx >= 0 THEN Sgn(yy) * a
             ELSE Sgn(yy) * (Deg(180) - a)

---------------------------------------------------------------------------
(* The mechanical components: classes Differential, Integrator, Resolver,
   Cam (lines 15-126).  id and name never change and are left out. *)

\* new Differential(id, name, operation)
Differential(operation) ==
    [operation |-> operation, input1 |-> 0, input2 |-> 0, output |-> 0,
     rotation |-> 0]

\* Differential.update(input1, input2); the value returned is .output
Differential_update(d, input1, input2) ==
    [d EXCEPT !.input1 = input1,
              !.input2 = input2,
              !.output = IF d.operation = "add" THEN FAdd(input1, input2)
                         ELSE FSub(input1, input2),
              !.rotation = FAdd(@, FMul(FAdd(input1, input2), 1, 2))]

\* new Integrator(id, name)
Integrator ==
    [rollerPosition |-> 0, discRate |-> 0, accumulated |-> 0,
     discRotation |-> 0, outputRotation |-> 0]

\* an update that sets the accumulated value instead of adding to it
Integrator_updateForgetting(i, rollerPosition, discRate, dt) ==
    LET outputRate == FMul(discRate, rollerPosition, TrigScale)
    IN  [i EXCEPT !.rollerPosition = rollerPosition,
                  !.discRate = discRate,
                  !.accumulated = FMul(outputRate, dt, 10),
                  !.discRotation = FAdd(@, FMul(discRate, dt * 50, 10)),
                  !.outputRotation = FAdd(@, FMul(outputRate, dt * 50, 10))]

\* Integrator.update(rollerPosition, discRate, dt), with the roller
\* position in 1/TrigScale, the disc rate in milliyards per second and dt
\* in deciseconds; the value returned is .accumulated
Integrator_update(i, rollerPosition, discRate, dt) ==
    LET outputRate == FMul(discRate, rollerPosition, TrigScale)
    IN  [i EXCEPT !.rollerPosition = rollerPosition,
                  !.discRate = discRate,
                  !.accumulated = FAdd(@, FMul(outputRate, dt, 10)),
                  !.discRotation = FAdd(@, FMul(discRate, dt * 50, 10)),
                  !.outputRotation = FAdd(@, FMul(outputRate, dt * 50, 10))]

\* Integrator.reset()
Integrator_reset(i) ==
    [i EXCEPT !.accumulated = 0, !.discRotation = 0, !.outputRotation = 0]

\* new Resolver(id, name)
Resolver == [inputAngle |-> 0, sinOutput |-> 0, cosOutput |-> 0, rotation |-> 0]

\* Resolver.update(angleDegrees)
Resolver_update(r, angleDegrees) ==
    [r EXCEPT !.inputAngle = angleDegrees,
              !.sinOutput = SinDeg(angleDegrees),
              !.cosOutput = CosDeg(angleDegrees),
              !.rotation = angleDegrees]

\* new Cam(id, name): the profile function is the identity
Cam == [inputAngle |-> 0, output |-> 0, rotation |-> 0]

\* Cam.update(inputAngle)
Cam_update(c, inputAngle) ==
    [c EXCEPT !.inputAngle = inputAngle,
              !.output = inputAngle,
              !.rotation = inputAngle]

\* one component of each class, as constructed
Primitives ==
    [diff |-> Differential("subtract"), int |-> Integrator,
     res |-> Resolver, cam |-> Cam, returned |-> 0]

---------------------------------------------------------------------------
(* The engine: class TDCMarkIII *)

\* deciyards per yard
Yd == 10

\* 2025.4 / 3600 yards per second per knot, in milliyards per second per
\* 1000 knots
KNOTS_TO_YPS == 562611
\* knots
TORPEDO_SPEED == 46
\* yards
TUBE_BASE_LINE == 50
REACH == 75
TURN_RADIUS == 130
TORPEDO_INITIAL_RUN == 75
\* degrees per second: the full solver, the simplified solver
gyroServoRate == 8
gyroServoRateSimplified == 200
\* percent
servoInertia == 95
\* Math.PI / 180, in millionths
RadPerDeg == 17453

\* a speed in knots, in milliyards per second: speed * this.KNOTS_TO_YPS
Yps(knots) == FMul(knots, KNOTS_TO_YPS, 1000)

InputNames ==
    {"ownCourse", "ownSpeed", "targetBearing", "targetRange",
     "targetCourse", "targetSpeed"}

\* the two definitions of class TDCMarkIII in tdc_engine.js
Variants == {"full", "simplified"}

\* new TDCMarkIII()
constructor(variant) ==
    [ variant |-> variant,
      inputs |-> [ownCourse |-> 0, ownSpeed |-> 0, targetBearing |-> 0,
                  targetRange |-> 0, targetCourse |-> 0, targetSpeed |-> 0],
      state |-> [ownX |-> 0, ownY |-> 0, targetX |-> 0, targetY |-> 0,
                 elapsedTime |-> 0],
      int20 |-> 0, int25 |-> 0, int14 |-> 0, int15 |-> 0, int35 |-> 0,
      int36 |-> 0,
      diff28 |-> 0, diff29 |-> 0,
      gyroAngle |-> 0,
      servoVelocity |-> 0,
      outputs |-> [gyroAngle |-> 0, relativeBearing |-> 0, targetAngle |-> 0,
                   presentBearing |-> 0, presentRange |-> 0, torpedoRun |-> 0,
                   runTime |-> 0, trackAngle |-> 0, isSolved |-> FALSE,
                   solverError |-> 999 * Yd] ]

\* normalizeAngle(angle): the two while loops
RECURSIVE normalizeDown(_)
normalizeDown(angle) ==
    IF FGt(angle, Deg(180)) THEN normalizeDown(FSub(angle, Deg(360)))
    ELSE angle

RECURSIVE normalizeUp(_)
normalizeUp(angle) ==
    IF FLt(angle, -Deg(180)) THEN normalizeUp(FAdd(angle, Deg(360)))
    ELSE angle

normalizeAngle(angle) == normalizeUp(normalizeDown(angle))

\* Math.max(-90, Math.min(90, g))
clampGyro(g) == FMax(-Deg(90), FMin(Deg(90), g))

\* a setInputs that restarts the solver as well
setInputsRestarting(e, inputs) ==
    [e EXCEPT !.inputs = [n \in InputNames |->
                             IF n \in DOMAIN inputs THEN inputs[n] ELSE @[n]],
              !.gyroAngle = 0,
              !.outputs.isSolved = FALSE]

\* a setInputs that places the target anew whenever it is given a bearing
\* or a range
setInputsPlacing(e, inputs) ==
    LET f == [e EXCEPT !.inputs =
                 [n \in InputNames |->
                     IF n \in DOMAIN inputs THEN inputs[n] ELSE @[n]]]
    IN  IF "targetBearing" \in DOMAIN inputs \/ "targetRange" \in DOMAIN inputs
        THEN [f EXCEPT
                 !.state.targetX = FMul(f.inputs.targetRange,
                                        SinDeg(f.inputs.targetBearing), 10),
                 !.state.targetY = FMul(f.inputs.targetRange,
                                        CosDeg(f.inputs.targetBearing), 10)]
        ELSE f

\* setInputs(inputs): Object.assign(this.inputs, inputs), for an object
\* inputs that holds some of the six input names
setInputs(e, inputs) ==
    [e EXCEPT !.inputs = [n \in InputNames |->
                             IF n \in DOMAIN inputs THEN inputs[n] ELSE @[n]]]

\* a solver that is always started from a gyro angle of 0
seedGyroZero(e) == 0

\* the gyro angle that initialize() starts the solver from
seedGyro(e) ==
    IF e.variant = "full"
    THEN clampGyro(FMul(normalizeAngle(FSub(e.inputs.targetBearing,
                                            e.inputs.ownCourse)), 8, 10))
    ELSE 0

\* an initialize() that forgets to reset one integrator
initializeForgettingInt36(e) ==
    [e EXCEPT
        !.state = [ownX |-> 0, ownY |-> 0,
                   targetX |-> FMul(e.inputs.targetRange,
                                    SinDeg(e.inputs.targetBearing), 10),
                   targetY |-> FMul(e.inputs.targetRange,
                                    CosDeg(e.inputs.targetBearing), 10),
                   elapsedTime |-> 0],
        !.int20 = 0, !.int25 = 0, !.int14 = 0, !.int15 = 0, !.int35 = 0,
        !.gyroAngle = seedGyro(e),
        !.servoVelocity = IF e.variant = "full" THEN 0 ELSE @,
        !.outputs.isSolved = FALSE]

\* an initialize() that publishes the gyro angle it has seeded
initializePublishing(e) ==
    [e EXCEPT
        !.state = [ownX |-> 0, ownY |-> 0,
                   targetX |-> FMul(e.inputs.targetRange,
                                    SinDeg(e.inputs.targetBearing), 10),
                   targetY |-> FMul(e.inputs.targetRange,
                                    CosDeg(e.inputs.targetBearing), 10),
                   elapsedTime |-> 0],
        !.int20 = 0, !.int25 = 0, !.int14 = 0, !.int15 = 0, !.int35 = 0,
        !.int36 = 0,
        !.gyroAngle = seedGyro(e),
        !.servoVelocity = IF e.variant = "full" THEN 0 ELSE @,
        !.outputs.gyroAngle = seedGyro(e),
        !.outputs.isSolved = FALSE]

\* initialize()
initialize(e) ==
    [e EXCEPT
        !.state = [ownX |-> 0, ownY |-> 0,
                   targetX |-> FMul(e.inputs.targetRange,
                                    SinDeg(e.inputs.targetBearing), 10),
                   targetY |-> FMul(e.inputs.targetRange,
                                    CosDeg(e.inputs.targetBearing), 10),
                   elapsedTime |-> 0],
        !.int20 = 0, !.int25 = 0, !.int14 = 0, !.int15 = 0, !.int35 = 0,
        !.int36 = 0,
        !.gyroAngle = seedGyro(e),
        !.servoVelocity = IF e.variant = "full" THEN 0 ELSE @,
        !.outputs.isSolved = FALSE]

\* speed * sin-or-cos * dt: the distance in milliyards covered in dt
\* deciseconds at rate milliyards per second along a direction component
Travel(rate, trig, dt) == FMul(FMul(rate, trig, TrigScale), dt, 10)

\* an updatePositions that drops every call after the first one
updatePositionsOnce(e, dt) ==
    IF e.state.elapsedTime # 0 THEN e
    ELSE LET ownSpeedYps    == Yps(e.inputs.ownSpeed)
             targetSpeedYps == Yps(e.inputs.targetSpeed)
         IN  [e EXCEPT
                 !.state.ownX = FAdd(@, Travel(ownSpeedYps,
                                          SinDeg(e.inputs.ownCourse), dt)),
                 !.state.ownY = FAdd(@, Travel(ownSpeedYps,
                                          CosDeg(e.inputs.ownCourse), dt)),
                 !.state.targetX = FAdd(@, Travel(targetSpeedYps,
                                         SinDeg(e.inputs.targetCourse), dt)),
                 !.state.targetY = FAdd(@, Travel(targetSpeedYps,
                                         CosDeg(e.inputs.targetCourse), dt)),
                 !.state.elapsedTime = FAdd(@, dt)]

\* updatePositions(dt)
updatePositions(e, dt) ==
    LET ownSpeedYps    == Yps(e.inputs.ownSpeed)
        targetSpeedYps == Yps(e.inputs.targetSpeed)
    IN  [e EXCEPT
            !.state.ownX = FAdd(@, Travel(ownSpeedYps,
                                          SinDeg(e.inputs.ownCourse), dt)),
            !.state.ownY = FAdd(@, Travel(ownSpeedYps,
                                          CosDeg(e.inputs.ownCourse), dt)),
            !.state.targetX = FAdd(@, Travel(targetSpeedYps,
                                         SinDeg(e.inputs.targetCourse), dt)),
            !.state.targetY = FAdd(@, Travel(targetSpeedYps,
                                         CosDeg(e.inputs.targetCourse), dt)),
            !.state.elapsedTime = FAdd(@, dt)]

\* a present range that is corrected by the range change of Differential 29
calculatePresentGeometryIntegrated(e) ==
    Once2(FSub(e.state.targetX, e.state.ownX),
          FSub(e.state.targetY, e.state.ownY), LAMBDA dx, dy :
    Once2(Hypot(dx, dy), Atan2Deg(dx, dy), LAMBDA h, b :
        [e EXCEPT
            !.outputs.presentRange =
                FAdd(IF IsNum(h) THEN Rnd(h, 100) ELSE h,
                     FMul(e.diff29, 1, 100)),
            !.outputs.presentBearing =
                IF FLt(b, 0) THEN FAdd(b, Deg(360)) ELSE b]))

\* calculatePresentGeometry()
calculatePresentGeometry(e) ==
    Once2(FSub(e.state.targetX, e.state.ownX),
          FSub(e.state.targetY, e.state.ownY), LAMBDA dx, dy :
    Once2(Hypot(dx, dy), Atan2Deg(dx, dy), LAMBDA h, b :
        [e EXCEPT
            !.outputs.presentRange = IF IsNum(h) THEN Rnd(h, 100) ELSE h,
            !.outputs.presentBearing =
                IF FLt(b, 0) THEN FAdd(b, Deg(360)) ELSE b]))

\* Integrator.update(rollerPosition, discRate, dt): the new accumulated
\* value, in milliyards
IntegratorUpdate(accumulated, rollerPosition, discRate, dt) ==
    FAdd(accumulated, Travel(discRate, rollerPosition, dt))

\* runPositionKeeper(dt)
runPositionKeeper(e, dt) ==
    LET So  == Yps(e.inputs.ownSpeed)
        S   == Yps(e.inputs.targetSpeed)
        B   == e.outputs.presentBearing
        Co  == e.inputs.ownCourse
        C   == e.inputs.targetCourse
    IN  Once2(normalizeAngle(FSub(B, Co)),
              normalizeAngle(FSub(FAdd(B, Deg(180)), C)), LAMBDA Br, A :
        Once2(IntegratorUpdate(e.int14, SinDeg(Br), So, dt),
              IntegratorUpdate(e.int35, SinDeg(A), S, dt), LAMBDA i14, i35 :
        Once2(IntegratorUpdate(e.int15, CosDeg(Br), So, dt),
              IntegratorUpdate(e.int36, CosDeg(A), S, dt), LAMBDA i15, i36 :
            [e EXCEPT
                !.outputs.relativeBearing = Br,
                !.outputs.targetAngle = A,
                !.int20 = IntegratorUpdate(@, TrigScale, So, dt),
                !.int25 = IntegratorUpdate(@, TrigScale, S, dt),
                !.int14 = i14, !.int15 = i15, !.int35 = i35, !.int36 = i36,
                !.diff28 = FAdd(i14, i35),
                !.diff29 = FAdd(i15, i36)])))

---------------------------------------------------------------------------
(* The Angle Solver of the full definition (lines 408-589) *)

\* this.TORPEDO_SPEED * this.KNOTS_TO_YPS, milliyards per second
torpedoSpeedYps == Yps(TORPEDO_SPEED)

\* getTotalStraightRun(): |P| + M, in deciyards
getTotalStraightRun == (Abs(TUBE_BASE_LINE) + REACH) * Yd

\* a length in deciyards over the torpedo speed: the time in centiseconds
RunTimeOf(length) == FDiv(length, torpedoSpeedYps, 10000)

\* Z * |G_rad|: the arc of the turn, in deciyards
arcLengthOf(G) ==
    FMul(FMul(TURN_RADIUS * Yd, FAbs(G), AU), RadPerDeg, 1000000)

\* computeError(testGyro), given R, Br, A and S of the current step
computeError(e, testGyro) ==
    LET R   == e.outputs.presentRange
        Br  == e.outputs.relativeBearing
        S   == Yps(e.inputs.targetSpeed)
        G_minus_Br == FSub(testGyro, Br)
        PM  == getTotalStraightRun
        Z   == TURN_RADIUS * Yd
        arcLength == arcLengthOf(testGyro)
        straightPortionCovered ==
            FAdd(FMul(PM, CosDeg(testGyro), TrigScale),
                 FMul(Z, SinDeg(FAbs(testGyro)), TrigScale))
        finalRun == FMax(0, FSub(R, straightPortionCovered))
        torpedoPath == FAdd(FAdd(PM, arcLength), finalRun)
        estRunTime == RunTimeOf(torpedoPath)
        H   == FMul(S, estRunTime, 10000)
        A   == e.outputs.targetAngle
        I   == FAdd(A, G_minus_Br)
        J   == FMul(Z, FSub(TrigScale, CosDeg(testGyro)), TrigScale)
        chordLength ==
            FMul(2 * Z, SinDeg(FMul(FAbs(testGyro), 1, 2)), TrigScale)
        Us  == FSub(arcLength, chordLength)
    IN  [ errorXVII |->
            FSub(FSub(FSub(FMul(R, CosDeg(G_minus_Br), TrigScale),
                           FMul(H, CosDeg(I), TrigScale)),
                      Us),
                 FMul(PM, CosDeg(testGyro), TrigScale)),
          errorXVIII |->
            FSub(FSub(FSub(FMul(R, SinDeg(G_minus_Br), TrigScale),
                           FMul(H, SinDeg(I), TrigScale)),
                      J),
                 FMul(PM, SinDeg(testGyro), TrigScale)) ]

\* Math.max(10, R * 0.005), and ten times it
solveThresholdOf(R) == FMax(10 * Yd, FMul(R, 5, 1000))
unsolvThresholdOf(R) == FMul(solveThresholdOf(R), 10, 1)

\* the solved flag without hysteresis: set from the solve threshold alone
solvedAfterNoHysteresis(isSolved, errorXVIII, R) ==
    FLt(FAbs(errorXVIII), solveThresholdOf(R))

\* the hysteresis on the solved flag (lines 507-519)
solvedAfter(isSolved, errorXVIII, R) ==
    IF isSolved
    THEN ~FGt(FAbs(errorXVIII), unsolvThresholdOf(R))
    ELSE FLt(FAbs(errorXVIII), solveThresholdOf(R))

\* whether the servo branch runs (line 524)
servoRuns(isSolved, errorXVIII, R) ==
    ~isSolved \/ FGt(FAbs(errorXVIII), FMul(solveThresholdOf(R), 5, 10))

\* half a degree: the finite-difference step
delta == AU \div 2

\* (errPlus.errorXVIII - errMinus.errorXVIII) / (2 * delta), deciyards per
\* degree
dErrXVIII_dG(e) ==
    FDiv(FSub(computeError(e, FAdd(e.gyroAngle, delta)).errorXVIII,
              computeError(e, FSub(e.gyroAngle, delta)).errorXVIII),
         2 * delta, AU)

\* a servo that is driven with the opposite sign of the Newton-Raphson step
targetVelocityReversed(e, errorXVIII, isSolved) ==
    LET servoSpeedMultiplier == IF isSolved THEN 3 ELSE 10
    IN  Once(dErrXVIII_dG(e), LAMBDA d :
        IF FGt(FAbs(d), 1)
        THEN LET idealStep == FDiv(errorXVIII, d, AU)
                 v == FMul(FMul(FSign(idealStep), gyroServoRate * AU, 1),
                           servoSpeedMultiplier, 10)
                 errorMag == FAbs(errorXVIII)
             IN  IF FLt(errorMag, 50 * Yd) THEN FMul(v, errorMag, 50 * Yd)
                 ELSE v
        ELSE FMul(FMul(FMul(FNeg(FSign(errorXVIII)), gyroServoRate * AU, 1),
                       3, 10),
                  servoSpeedMultiplier, 10))

\* a target velocity that always takes the Newton-Raphson step, whatever
\* the derivative is
targetVelocityUnguarded(e, errorXVIII, isSolved) ==
    LET servoSpeedMultiplier == IF isSolved THEN 3 ELSE 10
    IN  Once(dErrXVIII_dG(e), LAMBDA d :
        LET idealStep == FDiv(FNeg(errorXVIII), d, AU)
            v == FMul(FMul(FSign(idealStep), gyroServoRate * AU, 1),
                      servoSpeedMultiplier, 10)
            errorMag == FAbs(errorXVIII)
        IN  IF FLt(errorMag, 50 * Yd) THEN FMul(v, errorMag, 50 * Yd)
            ELSE v)

\* the servo's target velocity (lines 535-550), in 1/AU degree per second
targetVelocityOf(e, errorXVIII, isSolved) ==
    LET servoSpeedMultiplier == IF isSolved THEN 3 ELSE 10
    IN  Once(dErrXVIII_dG(e), LAMBDA d :
        IF FGt(FAbs(d), 1)
        THEN LET idealStep == FDiv(FNeg(errorXVIII), d, AU)
                 v == FMul(FMul(FSign(idealStep), gyroServoRate * AU, 1),
                           servoSpeedMultiplier, 10)
                 errorMag == FAbs(errorXVIII)
             IN  IF FLt(errorMag, 50 * Yd) THEN FMul(v, errorMag, 50 * Yd)
                 ELSE v
        ELSE FMul(FMul(FMul(FNeg(FSign(errorXVIII)), gyroServoRate * AU, 1),
                       3, 10),
                  servoSpeedMultiplier, 10))

\* Math.abs(normalizeAngle(torpedoHeading - targetCourse + 180)), folded
trackAngleOf(e, G) ==
    LET torpedoHeading == FAdd(e.inputs.ownCourse, G)
        t == FAbs(normalizeAngle(
                 FAdd(FSub(torpedoHeading, e.inputs.targetCourse), Deg(180))))
    IN  IF FGt(t, Deg(180)) THEN FSub(Deg(360), t) ELSE t

\* runAngleSolver(dt), full definition
runAngleSolverFull(e, dt) ==
    LET R   == e.outputs.presentRange
        Br  == e.outputs.relativeBearing
    IN  Once(computeError(e, e.gyroAngle), LAMBDA errors :
        Once(solvedAfter(e.outputs.isSolved, errors.errorXVIII, R),
             LAMBDA isSolved :
        Once(servoRuns(isSolved, errors.errorXVIII, R), LAMBDA runs :
        Once(IF runs
             THEN FAdd(FMul(e.servoVelocity, servoInertia, 100),
                       FMul(targetVelocityOf(e, errors.errorXVIII, isSolved),
                            100 - servoInertia, 100))
             ELSE FMul(e.servoVelocity, 8, 10), LAMBDA servoVelocity :
        Once(IF runs
             THEN clampGyro(FAdd(e.gyroAngle, FMul(servoVelocity, dt, 10)))
             ELSE e.gyroAngle, LAMBDA gyroAngle :
        Once(FDiv(R, FMax(TrigScale \div 2, CosDeg(FSub(gyroAngle, Br))),
                  TrigScale), LAMBDA torpedoRun :
            [e EXCEPT
                !.gyroAngle = gyroAngle,
                !.servoVelocity = servoVelocity,
                !.outputs.solverError =
                    Hypot(errors.errorXVII, errors.errorXVIII),
                !.outputs.isSolved = isSolved,
                !.outputs.gyroAngle = gyroAngle,
                !.outputs.trackAngle = trackAngleOf(e, gyroAngle),
                !.outputs.torpedoRun = torpedoRun,
                !.outputs.runTime = RunTimeOf(torpedoRun)]))))))

---------------------------------------------------------------------------
(* The Angle Solver of the simplified definition (lines 1040-1165) *)

\* errorXVII and errorXVIII at the current gyro angle (lines 1055-1085)
simplifiedErrors(e) ==
    LET R   == e.outputs.presentRange
        Br  == e.outputs.relativeBearing
        S   == Yps(e.inputs.targetSpeed)
        G_minus_Br == FSub(e.gyroAngle, Br)
        estRunTime == RunTimeOf(R)
        H   == FMul(S, estRunTime, 10000)
        I   == FAdd(e.outputs.targetAngle, G_minus_Br)
        P_cosG == FMul(TORPEDO_INITIAL_RUN * Yd, CosDeg(e.gyroAngle),
                       TrigScale)
        P_sinG == FMul(TORPEDO_INITIAL_RUN * Yd, SinDeg(e.gyroAngle),
                       TrigScale)
    IN  [ errorXVII |->
            FSub(FSub(FMul(R, CosDeg(G_minus_Br), TrigScale),
                      FMul(H, CosDeg(I), TrigScale)),
                 P_cosG),
          errorXVIII |->
            FSub(FSub(FMul(R, SinDeg(G_minus_Br), TrigScale),
                      FMul(H, SinDeg(I), TrigScale)),
                 P_sinG) ]

\* Math.max(5, R * 0.001)
errorThresholdOf(R) == FMax(5 * Yd, FMul(R, 1, 1000))

\* the correction of the gyro angle (lines 1115-1130), in 1/AU degree
gyroCorrectionOf(gyroAngle, errorXVII, errorXVIII) ==
    IF FGt(FAbs(gyroAngle), Deg(120))
    THEN FMul(FNeg(FSign(gyroAngle)), Deg(10), 1)
    ELSE LET c == FMul(errorXVIII, (3 * AU) \div (100 * Yd), 1)
         IN  IF FLt(FAbs(errorXVIII), 10 * Yd)
                /\ FGt(FAbs(errorXVII), 50 * Yd)
             THEN FAdd(c, FMul(FSign(errorXVII), AU \div 2, 1))
             ELSE c

\* runAngleSolver(dt), simplified definition
runAngleSolverSimplified(e, dt) ==
    LET R   == e.outputs.presentRange
        maxStep == FMul(gyroServoRateSimplified * AU, dt, 10)
    IN  Once(simplifiedErrors(e), LAMBDA errors :
        Once(FAdd(FAbs(errors.errorXVII), FAbs(errors.errorXVIII)),
             LAMBDA solverError :
        Once(FGt(solverError, errorThresholdOf(R)), LAMBDA hunting :
        Once(FMax(FNeg(maxStep),
                  FMin(maxStep,
                       gyroCorrectionOf(e.gyroAngle, errors.errorXVII,
                                        errors.errorXVIII))), LAMBDA step :
        Once(IF hunting THEN clampGyro(FAdd(e.gyroAngle, step))
             ELSE e.gyroAngle, LAMBDA gyroAngle :
            [e EXCEPT
                !.gyroAngle = gyroAngle,
                !.outputs.solverError = solverError,
                !.outputs.isSolved = ~hunting,
                !.outputs.gyroAngle = gyroAngle,
                !.outputs.trackAngle = trackAngleOf(e, gyroAngle),
                !.outputs.torpedoRun = R,
                !.outputs.runTime = RunTimeOf(R)])))))

\* runAngleSolver(dt)
runAngleSolver(e, dt) ==
    IF e.variant = "full" THEN runAngleSolverFull(e, dt)
    ELSE runAngleSolverSimplified(e, dt)

\* the lines that runAngleSolver(dt) writes to the console when the calls
\* of Math.random() return draws[1], draws[2], ... in turn (thousandths):
\* lines 487 and 563, and lines 1047, 1097 and 1141 in the simplified
\* definition
consoleOf(e, draws, servo) ==
    IF e.variant = "full"
    THEN (IF draws[1] < 10 THEN <<"Solver">> ELSE <<>>)
         \o (IF servo /\ draws[2] < 20 THEN <<"Servo">> ELSE <<>>)
    ELSE (IF draws[1] < 10 THEN <<"AngleSolver">> ELSE <<>>)
         \o (IF draws[2] < 10 THEN <<"Solver">> ELSE <<>>)
         \o (IF servo /\ draws[3] < 20 THEN <<"Servo">> ELSE <<>>)

\* whether runAngleSolver(dt) takes its servo branch (line 524; line 1102
\* in the simplified definition)
servoBranch(e) ==
    IF e.variant = "full"
    THEN Once(computeError(e, e.gyroAngle).errorXVIII, LAMBDA errorXVIII :
             servoRuns(solvedAfter(e.outputs.isSolved, errorXVIII,
                                   e.outputs.presentRange),
                       errorXVIII, e.outputs.presentRange))
    ELSE Once(simplifiedErrors(e), LAMBDA errors :
             FGt(FAdd(FAbs(errors.errorXVII), FAbs(errors.errorXVIII)),
                 errorThresholdOf(e.outputs.presentRange)))

\* the number of times runAngleSolver(dt) computes the two errors: the
\* calls of computeError (lines 473, 530, 531), and the one computation of
\* the simplified definition (lines 1079-1085)
evaluationsOf(e, servo) ==
    IF e.variant = "full" THEN (IF servo THEN 3 ELSE 1) ELSE 1

\* a solver that returns right after it has logged its first debug line
runAngleSolverLoggingOnly(e, dt, draws) ==
    Once(servoBranch(e), LAMBDA servo :
        [ tdc |-> IF draws[1] < 10 THEN e ELSE runAngleSolver(e, dt),
          console |-> consoleOf(e, draws, servo),
          evaluations |-> evaluationsOf(e, servo) ])

\* runAngleSolver(dt) with its calls of Math.random() and console.log: the
\* engine after it, the lines logged and the number of error evaluations
runAngleSolverDrawing(e, dt, draws) ==
    Once(servoBranch(e), LAMBDA servo :
        [ tdc |-> runAngleSolver(e, dt),
          console |-> consoleOf(e, draws, servo),
          evaluations |-> evaluationsOf(e, servo) ])

\* step(dt) with the calls of Math.random() and console.log of its solver
stepDrawing(e, dt, draws) ==
    runAngleSolverDrawing(
        runPositionKeeper(calculatePresentGeometry(updatePositions(e, dt)),
                          dt),
        dt, draws)

\* a step whose angle solver runs first, on the geometry the previous step
\* left in outputs
stepSolverFirst(e, dt) ==
    runPositionKeeper(
        calculatePresentGeometry(updatePositions(runAngleSolver(e, dt), dt)),
        dt)

\* step(dt)
step(e, dt) ==
    runAngleSolver(
        runPositionKeeper(calculatePresentGeometry(updatePositions(e, dt)),
                          dt),
        dt)

---------------------------------------------------------------------------
(* The state machine *)

\* Error XVIII as runAngleSolver computes it within step(dt): after the
\* position keeper of that step, at the gyro angle the step starts from
ErrorXVIIISeen(e, dt) ==
    LET k == runPositionKeeper(
                 calculatePresentGeometry(updatePositions(e, dt)), dt)
    IN  IF e.variant = "full"
        THEN computeError(k, e.gyroAngle).errorXVIII
        ELSE simplifiedErrors(k).errorXVIII

VARIABLES
    a,          \* an engine instance
    b,          \* a second engine instance
    dt,         \* the dt argument of the step calls, in deciseconds
    last,       \* the latest call: "new", "setInputs", "initialize", "step"
    wasSolved,  \* outputs.isSolved of a before the latest call
    seenXVIII,  \* the errorXVIII that the latest step of a computed
    everSolved, \* some step of a since initialize() left the flag set
    calls,      \* the number of calls made so far
    prev,       \* a as it was before the latest call
    hist,       \* the calls made so far, where a claim is about all of them
    prim,       \* a Differential, an Integrator, a Resolver and a Cam
    effects     \* what the latest step did besides changing the engines,
                \* where a claim is about it: the lines a and b wrote to
                \* the console, and the computeError calls of a

vars ==
    <<a, b, dt, last, wasSolved, seenXVIII, everSolved, calls, prev, hist,
      prim, effects>>

\* nothing logged, nothing evaluated
NoEffects == [a |-> <<>>, b |-> <<>>, evaluations |-> 0]

\* the number of calls in a behaviour of Spec
MaxCalls == 4

\* the values the operator sets: angles, knots, yards.  A range of
\* Tier(1000) is a finite range of 1000 * Omega yards.
InputValues ==
    [ ownCourse     |-> {Deg(30)},
      ownSpeed      |-> {5},
      targetBearing |-> {Deg(90), Deg(180)},
      targetRange   |-> {1000, Tier(1000)},
      targetCourse  |-> {Deg(270)},
      targetSpeed   |-> {8} ]

\* the dt arguments of step, in deciseconds
StepValues == {1, 10, -10}

\* a whole scenario: the six inputs (degrees, knots, yards)
Scenario(Co, So, B, R, C, S) ==
    [ ownCourse |-> Deg(Co), ownSpeed |-> So,
      targetBearing |-> Deg(B), targetRange |-> R,
      targetCourse |-> Deg(C), targetSpeed |-> S ]

\* the objects passed to setInputs: every single input, and some objects
\* that set several inputs at once
InputObjects ==
    UNION { { n :> v : v \in InputValues[n] } : n \in InputNames }
    \cup { Scenario(0, 0, 0, 1000, 90, 8),
           [targetCourse |-> Deg(90), targetSpeed |-> 50] }

Init ==
    /\ a \in {constructor(v) : v \in Variants}
    /\ b = constructor("full")
    /\ dt = 0
    /\ last = "new"
    /\ wasSolved = FALSE
    /\ seenXVIII = 0
    /\ everSolved = FALSE
    /\ calls = 0
    /\ prev = a
    /\ hist = <<>>
    /\ prim = Primitives
    /\ effects = NoEffects

\* tdc.setInputs(inputs)
SetInputs ==
    /\ calls < MaxCalls
    /\ \E inputs \in InputObjects :
          /\ setInputs(a, inputs) # a
          /\ a' = setInputs(a, inputs)
    /\ last' = "setInputs"
    /\ wasSolved' = a.outputs.isSolved
    /\ calls' = calls + 1
    /\ prev' = a
    /\ UNCHANGED <<b, dt, seenXVIII, everSolved, hist, prim, effects>>

\* tdc.initialize()
Initialize ==
    /\ calls < MaxCalls
    /\ a' = initialize(a)
    /\ last' = "initialize"
    /\ wasSolved' = a.outputs.isSolved
    /\ everSolved' = FALSE
    /\ calls' = calls + 1
    /\ prev' = a
    /\ UNCHANGED <<b, dt, seenXVIII, hist, prim, effects>>

\* tdc.step(d)
Step ==
    /\ calls < MaxCalls
    /\ \E d \in StepValues :
          /\ a' = step(a, d)
          /\ seenXVIII' = ErrorXVIIISeen(a, d)
          /\ dt' = d
    /\ last' = "step"
    /\ wasSolved' = a.outputs.isSolved
    /\ everSolved' = (everSolved \/ a'.outputs.isSolved)
    /\ calls' = calls + 1
    /\ prev' = a
    /\ UNCHANGED <<b, hist, prim, effects>>

Next == SetInputs \/ Initialize \/ Step

Spec == Init /\ [][Next]_vars

---------------------------------------------------------------------------
(* Runs: a scenario is set, initialize() is called, and step(dt) is
   called repeatedly with one dt; b runs the mirror image of a's scenario *)

\* the number of steps of a run
MaxSteps == 400

\* the dt of a run, in deciseconds
RunSteps == {1, 10}

\* static target, static own ship
StaticScenarios ==
    { Scenario(0, 0, tb, tr, 0, 0) : tb \in {0, 45, 90}, tr \in {1000, 2000} }

\* a target faster than the torpedo, retreating along the line of sight
ChaseScenarios ==
    { Scenario(0, 0, tb, 1000, tb, 50) : tb \in {0, 30, 90} }

\* own ship stopped on course 0, target at 090, 2000 yd, course 270, 10 kn
InterceptScenario == Scenario(0, 0, 90, 2000, 270, 10)

\* a target at 1000 yd crossing the line of sight at a right angle, 8 kn
DeflectionScenarios ==
    { Scenario(0, 0, tb, 1000, tb + side, 8) :
          tb \in {0, 30}, side \in {90, -90} }

\* inputs at the edges: range 0, a negative range, and a finite range of
\* 1000 * Omega yards, with speeds 0 and angles at multiples of 90 degrees
EdgeScenarios ==
    { Scenario(0, 0, 90, 0, 180, 0),
      Scenario(90, 0, 270, -500, 0, 5),
      Scenario(0, 0, 0, Tier(1000), 0, 0) }

\* own ship on course 180, stopped, with the target dead astern at 000
AsternScenario == Scenario(180, 0, 0, 1000, 0, 0)

\* both ships under way
UnderWayScenario == Scenario(30, 5, 90, 1000, 240, 8)

\* a static target abaft the beam at 172, 934 yd: with the gyro angle on
\* the 90 degree clamp, Error XVIII is all but flat in the gyro angle
FlatScenario == Scenario(0, 0, 172, 934, 0, 0)

\* a target at 170, 1000 yd, crossing astern from starboard to port at 30 kn
CrossingAsternScenario == Scenario(0, 0, 170, 1000, 270, 30)

RunScenarios ==
    StaticScenarios \cup ChaseScenarios \cup {InterceptScenario}
    \cup DeflectionScenarios \cup EdgeScenarios
    \cup {AsternScenario, UnderWayScenario, FlatScenario,
          CrossingAsternScenario}

\* the left-right mirror image of a scenario
Mirror(inputs) ==
    [inputs EXCEPT !.ownCourse = -@, !.targetBearing = -@,
                   !.targetCourse = -@]

\* new TDCMarkIII(); setInputs(inputs); initialize()
Started(inputs) == initialize(setInputs(constructor("full"), inputs))

InitRun ==
    /\ \E inputs \in RunScenarios :
          /\ a = Started(inputs)
          /\ b = Started(Mirror(inputs))
    /\ dt \in RunSteps
    /\ last = "initialize"
    /\ wasSolved = FALSE
    /\ seenXVIII = 0
    /\ everSolved = FALSE
    /\ calls = 0
    /\ prev = a
    /\ hist = <<>>
    /\ prim = Primitives
    /\ effects = NoEffects

\* a.step(dt); b.step(dt)
Run ==
    /\ calls < MaxSteps
    /\ a' = step(a, dt)
    /\ b' = step(b, dt)
    /\ seenXVIII' = ErrorXVIIISeen(a, dt)
    /\ last' = "step"
    /\ wasSolved' = a.outputs.isSolved
    /\ everSolved' = (everSolved \/ a'.outputs.isSolved)
    /\ calls' = calls + 1
    /\ prev' = a
    /\ UNCHANGED <<dt, hist, prim, effects>>

SpecRun == InitRun /\ [][Run]_vars

---------------------------------------------------------------------------
(* Two instances: const A = new TDCMarkIII(), B = new TDCMarkIII(), and
   calls on the two in any order.  a is A, b is B; hist lists the calls as
   <<instance, method, argument>>. *)

Instances == {"A", "B"}

\* the number of calls in a behaviour of SpecPair
MaxPairCalls == 3

\* the objects passed to setInputs, by number
PairInputObjects ==
    << Scenario(0, 0, 30, 1000, 120, 8),
       [ownCourse |-> Deg(30), targetRange |-> 2000] >>

\* the calls made on an instance: <<method, argument>>, the argument of
\* setInputs being the number of an input object and that of step a dt
PairCalls ==
    {<<"setInputs", n>> : n \in DOMAIN PairInputObjects}
    \cup {<<"initialize", 0>>}
    \cup {<<"step", d>> : d \in {1, 10}}

\* e after the call <<method, argument>> on it
callMethod(e, method, argument) ==
    CASE method = "setInputs" -> setInputs(e, PairInputObjects[argument])
      [] method = "initialize" -> initialize(e)
      [] method = "step" -> step(e, argument)

\* instances whose this.inputs is one object, shared by all of them
callOnShared(engines, i, method, argument) ==
    [j \in DOMAIN engines |->
        IF j = i \/ method = "setInputs"
        THEN callMethod(engines[j], method, argument) ELSE engines[j]]

\* the instances after a call on instance i: every field that a method
\* writes is reached through this, and the constructor has made a new
\* object for each of them
callOn(engines, i, method, argument) ==
    [engines EXCEPT ![i] = callMethod(@, method, argument)]

\* the calls of hist that were made on instance i
OwnCalls(i) == SelectSeq(hist, LAMBDA c : c[1] = i)

\* a new instance after the calls cs, made on it alone
RECURSIVE Alone(_, _)
Alone(e, cs) ==
    IF cs = <<>> THEN e
    ELSE Alone(callMethod(e, Head(cs)[2], Head(cs)[3]), Tail(cs))

InitPair ==
    /\ a = constructor("full")
    /\ b = constructor("full")
    /\ dt = 0
    /\ last = "new"
    /\ wasSolved = FALSE
    /\ seenXVIII = 0
    /\ everSolved = FALSE
    /\ calls = 0
    /\ prev = a
    /\ hist = <<>>
    /\ prim = Primitives
    /\ effects = NoEffects

\* A.method(argument) or B.method(argument)
CallPair ==
    /\ calls < MaxPairCalls
    /\ \E i \in Instances, c \in PairCalls :
          \E engines \in {callOn([A |-> a, B |-> b], i, c[1], c[2])} :
              /\ a' = engines.A
              /\ b' = engines.B
              /\ hist' = Append(hist, <<i, c[1], c[2]>>)
              /\ last' = c[1]
    /\ calls' = calls + 1
    /\ UNCHANGED <<dt, wasSolved, seenXVIII, everSolved, prev, prim, effects>>

SpecPair == InitPair /\ [][CallPair]_vars

\* C13: after any interleaving of setInputs, initialize and step calls on
\* two separately constructed instances, each instance is in the state that
\* its own calls, made on it alone, lead to.
C13_Independent ==
    /\ a = Alone(constructor("full"), OwnCalls("A"))
    /\ b = Alone(constructor("full"), OwnCalls("B"))

\* A was given a scenario, B was then given other inputs and initialized,
\* and A was then initialized and stepped: A's inputs are its own
C13_Witness ==
    /\ Len(hist) = 3
    /\ hist[1] = <<"A", "setInputs", 1>>
    /\ hist[2][1] = "B"
    /\ hist[3] = <<"A", "step", 10>>
    /\ a.inputs # b.inputs
    /\ a.state.targetX # 0
    /\ b.state.targetX = 0

---------------------------------------------------------------------------
(* The components on their own: one Differential, one Integrator, one
   Resolver and one Cam, and update and reset calls on them.  hist lists
   the calls on the Integrator: <<"update", rollerPosition, discRate, dt>>
   and <<"reset", 0, 0, 0>>. *)

\* the number of calls in a behaviour of SpecPrim
MaxPrimCalls == 4

\* roller positions (1/TrigScale), a disc rate (8 knots in milliyards per
\* second), dt (deciseconds), angles
RollerValues == {TrigScale, -5000}
DiscRates == {4501}
PrimSteps == {1, 10}
PrimAngles == {Deg(30), -Deg(45)}

InitPrim ==
    /\ a = constructor("full")
    /\ b = constructor("full")
    /\ dt = 0
    /\ last = "new"
    /\ wasSolved = FALSE
    /\ seenXVIII = 0
    /\ everSolved = FALSE
    /\ calls = 0
    /\ prev = a
    /\ hist = <<>>
    /\ prim = Primitives
    /\ effects = NoEffects

\* prim.int.update(r, d, t)
UpdateIntegrator ==
    /\ calls < MaxPrimCalls
    /\ \E r \in RollerValues, d \in DiscRates, t \in PrimSteps :
          \E i \in {Integrator_update(prim.int, r, d, t)} :
              /\ prim' = [prim EXCEPT !.int = i, !.returned = i.accumulated]
              /\ hist' = Append(hist, <<"update", r, d, t>>)
    /\ last' = "Integrator.update"
    /\ calls' = calls + 1
    /\ UNCHANGED <<a, b, dt, wasSolved, seenXVIII, everSolved, prev, effects>>

\* prim.int.reset()
ResetIntegrator ==
    /\ calls < MaxPrimCalls
    /\ prim' = [prim EXCEPT !.int = Integrator_reset(@)]
    /\ hist' = Append(hist, <<"reset", 0, 0, 0>>)
    /\ last' = "Integrator.reset"
    /\ calls' = calls + 1
    /\ UNCHANGED <<a, b, dt, wasSolved, seenXVIII, everSolved, prev, effects>>

\* prim.diff.update(input1, input2)
UpdateDifferential ==
    /\ calls < MaxPrimCalls
    /\ \E input1 \in {Deg(90)}, input2 \in PrimAngles :
          \E d \in {Differential_update(prim.diff, input1, input2)} :
              prim' = [prim EXCEPT !.diff = d, !.returned = d.output]
    /\ last' = "Differential.update"
    /\ calls' = calls + 1
    /\ UNCHANGED <<a, b, dt, wasSolved, seenXVIII, everSolved, prev, hist,
                   effects>>

\* prim.res.update(angleDegrees)
UpdateResolver ==
    /\ calls < MaxPrimCalls
    /\ \E angleDegrees \in PrimAngles :
          prim' = [prim EXCEPT !.res = Resolver_update(@, angleDegrees)]
    /\ last' = "Resolver.update"
    /\ calls' = calls + 1
    /\ UNCHANGED <<a, b, dt, wasSolved, seenXVIII, everSolved, prev, hist,
                   effects>>

\* prim.cam.update(inputAngle)
UpdateCam ==
    /\ calls < MaxPrimCalls
    /\ \E inputAngle \in PrimAngles :
          \E c \in {Cam_update(prim.cam, inputAngle)} :
              prim' = [prim EXCEPT !.cam = c, !.returned = c.output]
    /\ last' = "Cam.update"
    /\ calls' = calls + 1
    /\ UNCHANGED <<a, b, dt, wasSolved, seenXVIII, everSolved, prev, hist,
                   effects>>

NextPrim ==
    \/ UpdateIntegrator
    \/ ResetIntegrator
    \/ UpdateDifferential
    \/ UpdateResolver
    \/ UpdateCam

SpecPrim == InitPrim /\ [][NextPrim]_vars

\* the sum of rollerPosition * discRate * dt over the update calls of h
\* that follow its last reset
RECURSIVE SumSinceReset(_)
SumSinceReset(h) ==
    IF h = <<>> THEN 0
    ELSE LET c == h[Len(h)]
         IN  IF c[1] = "reset" THEN 0
             ELSE FAdd(SumSinceReset(SubSeq(h, 1, Len(h) - 1)),
                       FMul(FMul(c[3], c[2], TrigScale), c[4], 10))

\* C14: the accumulated value of an Integrator is the sum of r * d * dt
\* over the update calls since its last reset (or since construction),
\* each update returns that running sum, and reset sets it to 0 whatever
\* the calls before it.
C14_Integrator ==
    /\ prim.int.accumulated = SumSinceReset(hist)
    /\ last = "Integrator.update" => prim.returned = SumSinceReset(hist)
    /\ last = "Integrator.reset" => prim.int.accumulated = 0

\* an update, a reset, and two more updates with other arguments: the
\* accumulated value is the sum of the last two
C14_Witness ==
    /\ Len(hist) = 4
    /\ hist[1][1] = "update"
    /\ hist[2][1] = "reset"
    /\ hist[3][1] = "update"
    /\ hist[4][1] = "update"
    /\ hist[3] # hist[4] /\ hist[1] # hist[3]
    /\ last = "Integrator.update"
    /\ prim.int.accumulated # 0
    /\ prim.returned = prim.int.accumulated

\* C17 as stated: after an update of a Differential, a Resolver or a Cam,
\* every field of the component is a function of the arguments of that
\* update alone: it is what the same update gives on a new component.
C17_AsStated ==
    /\ last = "Differential.update" =>
          prim.diff = Differential_update(Differential("subtract"),
                                          prim.diff.input1, prim.diff.input2)
    /\ last = "Resolver.update" =>
          prim.res = Resolver_update(Resolver, prim.res.inputAngle)
    /\ last = "Cam.update" =>
          prim.cam = Cam_update(Cam, prim.cam.inputAngle)

---------------------------------------------------------------------------
(* The Position Keeper's integrals: two instances are given one scenario
   and the same step calls, and the components of the second one (which
   tdc.components hands out) are reset and updated from outside in between *)

\* the number of calls in a behaviour of SpecKeeper
MaxKeeperCalls == 4

\* the scenarios of the two instances
KeeperScenarios ==
    { UnderWayScenario, Scenario(0, 0, 30, 1000, -60, 8) }

\* the six integrators (this.int20 ... this.int36)
IntegratorNames == {"int20", "int25", "int14", "int15", "int35", "int36"}

\* the inputs of an update of Differential 28 or 29 from outside, milliyards
DisturbValues == {123456}

\* what the claims hold to be independent of the integrals: present range,
\* present bearing, relative bearing, target angle, the gyro angle (internal
\* and published), the servo velocity and the solved flag
Observed(e) ==
    << e.outputs.presentRange, e.outputs.presentBearing,
       e.outputs.relativeBearing, e.outputs.targetAngle,
       e.gyroAngle, e.outputs.gyroAngle, e.servoVelocity,
       e.outputs.isSolved >>

InitKeeper ==
    /\ \E v \in Variants, inputs \in KeeperScenarios :
          /\ a = initialize(setInputs(constructor(v), inputs))
          /\ b = a
    /\ dt = 0
    /\ last = "initialize"
    /\ wasSolved = FALSE
    /\ seenXVIII = 0
    /\ everSolved = FALSE
    /\ calls = 0
    /\ prev = a
    /\ hist = <<>>
    /\ prim = Primitives
    /\ effects = NoEffects

\* a.step(d); b.step(d)
StepBoth ==
    /\ calls < MaxKeeperCalls
    /\ \E d \in {1, 10} :
          /\ a' = step(a, d)
          /\ b' = step(b, d)
          /\ seenXVIII' = ErrorXVIIISeen(a, d)
          /\ dt' = d
    /\ last' = "step"
    /\ wasSolved' = a.outputs.isSolved
    /\ everSolved' = (everSolved \/ a'.outputs.isSolved)
    /\ calls' = calls + 1
    /\ prev' = a
    /\ UNCHANGED <<hist, prim, effects>>

\* b.components.int_NN.reset()
ResetIntegratorOfB ==
    /\ calls < MaxKeeperCalls
    /\ \E n \in IntegratorNames :
          /\ b[n] # 0
          /\ b' = [b EXCEPT ![n] = 0]
    /\ last' = "Integrator.reset"
    /\ calls' = calls + 1
    /\ UNCHANGED <<a, dt, wasSolved, seenXVIII, everSolved, prev, hist, prim,
                   effects>>

\* b.components.diff_28.update(v, 0), b.components.diff_29.update(v, 0)
UpdateDifferentialOfB ==
    /\ calls < MaxKeeperCalls
    /\ \E n \in {"diff28", "diff29"}, v \in DisturbValues :
          /\ b[n] # FAdd(v, 0)
          /\ b' = [b EXCEPT ![n] = FAdd(v, 0)]
    /\ last' = "Differential.update"
    /\ calls' = calls + 1
    /\ UNCHANGED <<a, dt, wasSolved, seenXVIII, everSolved, prev, hist, prim,
                   effects>>

NextKeeper == StepBoth \/ ResetIntegratorOfB \/ UpdateDifferentialOfB

SpecKeeper == InitKeeper /\ [][NextKeeper]_vars

\* C22: two instances given one scenario and the same steps, whose
\* integrators and Differentials 28 and 29 hold different values, agree on
\* present range, present bearing, relative bearing, target angle, gyro
\* angle, servo velocity and the solved flag.
C22_NoFeedback == Observed(b) = Observed(a)

\* the two have stepped with different integrals and different outputs of
\* Differentials 28 and 29, and the solver has moved the gyro angle
C22_Witness ==
    /\ last = "step"
    /\ calls = MaxKeeperCalls
    /\ b.int14 # a.int14 /\ b.int36 # a.int36
    /\ b.diff28 # a.diff28 /\ b.diff29 # a.diff29
    /\ a.gyroAngle # prev.gyroAngle
    /\ a.outputs.presentRange # prev.outputs.presentRange

---------------------------------------------------------------------------
(* Bearing and range set in mid-run: two instances are given one scenario
   and the same step calls; the second one is given another target bearing
   or range by setInputs in between, and initialize() is not called again *)

\* the objects passed to setInputs of the second instance
GeometryInputObjects ==
    { [targetBearing |-> Deg(200)], [targetRange |-> 3000],
      [targetBearing |-> Deg(90), targetRange |-> 500] }

\* b.setInputs(inputs)
SetGeometryInputsOfB ==
    /\ calls < MaxKeeperCalls
    /\ \E inputs \in GeometryInputObjects :
          /\ setInputs(b, inputs) # b
          /\ b' = setInputs(b, inputs)
    /\ last' = "setInputs"
    /\ calls' = calls + 1
    /\ UNCHANGED <<a, dt, wasSolved, seenXVIII, everSolved, prev, hist, prim,
                   effects>>

NextFrame == StepBoth \/ SetGeometryInputsOfB

SpecFrame == InitKeeper /\ [][NextFrame]_vars

\* C26: an instance that is given another target bearing or range by
\* setInputs and is stepped on, without initialize(), has the positions, the
\* elapsed time, the present range and the present bearing of the instance
\* that was not.
C26_GeometryKept ==
    /\ b.state = a.state
    /\ b.outputs.presentRange = a.outputs.presentRange
    /\ b.outputs.presentBearing = a.outputs.presentBearing

\* after a step, the second instance was given another bearing and another
\* range, and both have stepped again: the target has moved on
C26_Witness ==
    /\ last = "step"
    /\ calls >= 3
    /\ a.state.elapsedTime > dt
    /\ b.inputs.targetBearing # a.inputs.targetBearing
    /\ b.inputs.targetRange # a.inputs.targetRange
    /\ a.state.targetX # prev.state.targetX
    /\ a.outputs.presentBearing # prev.outputs.presentBearing

---------------------------------------------------------------------------
(* Math.random(): two instances are given the same calls, and the calls of
   Math.random() in their solvers return different numbers *)

\* the number of calls in a behaviour of SpecRandom
MaxRandomCalls == 3

\* what the calls of Math.random() within one step return, in thousandths:
\* under 0.01 (every debug line is logged), between 0.01 and 0.02 (the
\* servo's line only), above both
DrawSeqs == { <<5, 5, 5>>, <<15, 15, 15>>, <<500, 500, 500>> }

\* the dt argument of the steps, in deciseconds
RandomSteps == {10}

\* the scenarios of the two instances
RandomScenarios ==
    { Scenario(0, 0, 30, 1000, -60, 8), Scenario(0, 0, 0, 1000, 0, 50) }

\* the objects passed to setInputs; a speed of Tier(50) is a finite speed
\* of 50 * Omega knots
RandomInputObjects ==
    { [ownCourse |-> Deg(30), targetSpeed |-> 12],
      [targetSpeed |-> Tier(50)] }

InitRandom ==
    /\ \E v \in Variants, inputs \in RandomScenarios :
          /\ a = initialize(setInputs(constructor(v), inputs))
          /\ b = a
    /\ dt = 0
    /\ last = "initialize"
    /\ wasSolved = FALSE
    /\ seenXVIII = 0
    /\ everSolved = FALSE
    /\ calls = 0
    /\ prev = a
    /\ hist = <<>>
    /\ prim = Primitives
    /\ effects = NoEffects

\* a.step(d); b.step(d)
StepDrawing ==
    /\ calls < MaxRandomCalls
    /\ \E d \in RandomSteps, drawsA \in DrawSeqs, drawsB \in DrawSeqs :
          \E sa \in {stepDrawing(a, d, drawsA)},
             sb \in {stepDrawing(b, d, drawsB)} :
              /\ a' = sa.tdc
              /\ b' = sb.tdc
              /\ effects' = [a |-> sa.console, b |-> sb.console,
                             evaluations |-> sa.evaluations]
              /\ seenXVIII' = ErrorXVIIISeen(a, d)
              /\ dt' = d
    /\ last' = "step"
    /\ wasSolved' = a.outputs.isSolved
    /\ everSolved' = (everSolved \/ a'.outputs.isSolved)
    /\ calls' = calls + 1
    /\ prev' = a
    /\ UNCHANGED <<hist, prim>>

\* a.setInputs(inputs); b.setInputs(inputs)
SetInputsBoth ==
    /\ calls < MaxRandomCalls
    /\ \E inputs \in RandomInputObjects :
          /\ setInputs(a, inputs) # a
          /\ a' = setInputs(a, inputs)
          /\ b' = setInputs(b, inputs)
    /\ last' = "setInputs"
    /\ wasSolved' = a.outputs.isSolved
    /\ calls' = calls + 1
    /\ prev' = a
    /\ UNCHANGED <<dt, seenXVIII, everSolved, hist, prim, effects>>

\* a.initialize(); b.initialize()
InitializeBoth ==
    /\ calls < MaxRandomCalls
    /\ a' = initialize(a)
    /\ b' = initialize(b)
    /\ last' = "initialize"
    /\ wasSolved' = a.outputs.isSolved
    /\ everSolved' = FALSE
    /\ calls' = calls + 1
    /\ prev' = a
    /\ UNCHANGED <<dt, seenXVIII, hist, prim, effects>>

NextRandom == StepDrawing \/ SetInputsBoth \/ InitializeBoth

SpecRandom == InitRandom /\ [][NextRandom]_vars

\* C24: two instances given the same calls agree on their whole state,
\* whatever their calls of Math.random() return; the engine after a step is
\* the one that the state before it, the inputs and dt give; and a step
\* evaluates the errors at most three times.
C24_Deterministic ==
    /\ b = a
    /\ last = "step" =>
          /\ a = step(prev, dt)
          /\ effects.evaluations <= 3

\* a step in which the servo ran (three evaluations), one instance logged
\* its debug lines and the other one did not
C24_Witness ==
    /\ last = "step"
    /\ calls > 1
    /\ effects.evaluations = 3
    /\ effects.a = <<"Solver", "Servo">>
    /\ effects.b = <<>>
    /\ a.gyroAngle # prev.gyroAngle

---------------------------------------------------------------------------
(* Claims on Spec *)

\* a gyro angle within [-90, 90] degrees
InClamp(g) == IsNum(g) /\ g >= -Deg(90) /\ g <= Deg(90)

\* C1 as stated: in every reachable state the internal and the published
\* gyro angle lie within [-90, 90] degrees.
C1_AsStated == InClamp(a.gyroAngle) /\ InClamp(a.outputs.gyroAngle)

\* C2: over a step of the (full) angle solver, a false solved flag becomes
\* true exactly when |Error XVIII| < max(10, 0.005 * present range), a true
\* one becomes false exactly when |Error XVIII| exceeds ten times that; in
\* particular a solved solver seeing an error at or below the unsolve
\* threshold keeps the flag.
C2_Hysteresis ==
    (last = "step" /\ a.variant = "full") =>
        LET err == FAbs(seenXVIII)
            solveThreshold ==
                FMax(10 * Yd, FMul(a.outputs.presentRange, 5, 1000))
            unsolveThreshold == FMul(solveThreshold, 10, 1)
        IN  /\ ~wasSolved =>
                  (a.outputs.isSolved <=> FLt(err, solveThreshold))
            /\ wasSolved =>
                  (~a.outputs.isSolved <=> FGt(err, unsolveThreshold))

\* a solved solver has stepped with an Error XVIII between the two
\* thresholds, and the flag is still set
C2_Witness ==
    /\ last = "step"
    /\ a.variant = "full"
    /\ wasSolved
    /\ a.outputs.isSolved
    /\ FGt(FAbs(seenXVIII),
           FMax(10 * Yd, FMul(a.outputs.presentRange, 5, 1000)))

\* C9: after initialize(), whatever preceded it, the six integrators are 0,
\* the servo velocity is 0, the solved flag is false, elapsed time is 0, own
\* ship is at the origin and the target is at targetRange along
\* targetBearing of the current inputs.
C9_InitializeResets ==
    last = "initialize" =>
        /\ a.int20 = 0 /\ a.int25 = 0 /\ a.int14 = 0
        /\ a.int15 = 0 /\ a.int35 = 0 /\ a.int36 = 0
        /\ a.servoVelocity = 0
        /\ ~a.outputs.isSolved
        /\ a.state.elapsedTime = 0
        /\ a.state.ownX = 0 /\ a.state.ownY = 0
        /\ a.state.targetX =
              FMul(a.inputs.targetRange, SinDeg(a.inputs.targetBearing), 10)
        /\ a.state.targetY =
              FMul(a.inputs.targetRange, CosDeg(a.inputs.targetBearing), 10)

\* initialize() called after steps that had accumulated the target
\* integrators (diff29 still shows their sum) and moved the target
C9_Witness ==
    /\ last = "initialize"
    /\ wasSolved
    /\ a.diff29 # 0
    /\ a.outputs.presentRange # 0
    /\ a.inputs.targetRange = 1000

\* C10: setInputs leaves the gyro angle, the servo velocity, the solved
\* flag, the positions, elapsed time and the integrators as they were.
C10_SetInputsKeepsSolver ==
    [][ last' = "setInputs" =>
          /\ a'.gyroAngle = a.gyroAngle
          /\ a'.servoVelocity = a.servoVelocity
          /\ a'.outputs.isSolved = a.outputs.isSolved
          /\ a'.state = a.state
          /\ a'.int20 = a.int20 /\ a'.int25 = a.int25
          /\ a'.int14 = a.int14 /\ a'.int15 = a.int15
          /\ a'.int35 = a.int35 /\ a'.int36 = a.int36
      ]_vars

\* setInputs called on a solver in mid-solution: solved, gyro off zero,
\* servo still turning, integrators accumulated
C10_Witness ==
    /\ last = "setInputs"
    /\ a.outputs.isSolved
    /\ a.gyroAngle # 0
    /\ a.state.elapsedTime # 0
    /\ a.int36 # 0

\* outputs.solverError as the angle solver computes it (line 484; line 1088
\* in the simplified definition) from the range, relative bearing and
\* target angle held in e, at gyro angle G
SolverErrorAt(e, G) ==
    IF e.variant = "full"
    THEN Once(computeError(e, G), LAMBDA err :
             Hypot(err.errorXVII, err.errorXVIII))
    ELSE Once(simplifiedErrors([e EXCEPT !.gyroAngle = G]), LAMBDA err :
             FAdd(FAbs(err.errorXVII), FAbs(err.errorXVIII)))

\* outputs.torpedoRun as the angle solver computes it from the range and
\* relative bearing held in e and its gyro angle
TorpedoRunAt(e) ==
    IF e.variant = "full"
    THEN FDiv(e.outputs.presentRange,
              FMax(TrigScale \div 2,
                   CosDeg(FSub(e.gyroAngle, e.outputs.relativeBearing))),
              TrigScale)
    ELSE e.outputs.presentRange

\* C11: a step integrates the positions once, takes present range and
\* bearing from the positions so updated, runs the position keeper once on
\* that bearing (relative bearing, target angle, every integrator advanced
\* by one dt at the new angles), and then runs the angle solver on the range,
\* relative bearing and target angle of this same step.
C11_StepOrder ==
    last = "step" =>
        LET So == Yps(a.inputs.ownSpeed)
            S  == Yps(a.inputs.targetSpeed)
            Br == a.outputs.relativeBearing
            A  == a.outputs.targetAngle
        IN  /\ a.state = updatePositions(prev, dt).state
            /\ a.outputs.presentRange
                  = calculatePresentGeometry(a).outputs.presentRange
            /\ a.outputs.presentBearing
                  = calculatePresentGeometry(a).outputs.presentBearing
            /\ Br = normalizeAngle(FSub(a.outputs.presentBearing,
                                        a.inputs.ownCourse))
            /\ A = normalizeAngle(FSub(FAdd(a.outputs.presentBearing,
                                            Deg(180)),
                                       a.inputs.targetCourse))
            /\ a.int20 = IntegratorUpdate(prev.int20, TrigScale, So, dt)
            /\ a.int25 = IntegratorUpdate(prev.int25, TrigScale, S, dt)
            /\ a.int14 = IntegratorUpdate(prev.int14, SinDeg(Br), So, dt)
            /\ a.int15 = IntegratorUpdate(prev.int15, CosDeg(Br), So, dt)
            /\ a.int35 = IntegratorUpdate(prev.int35, SinDeg(A), S, dt)
            /\ a.int36 = IntegratorUpdate(prev.int36, CosDeg(A), S, dt)
            /\ a.outputs.solverError = SolverErrorAt(a, prev.gyroAngle)
            /\ a.outputs.torpedoRun = TorpedoRunAt(a)

\* a step taken when the previous step had left another range, another
\* relative bearing and another target angle in outputs
C11_Witness ==
    /\ last = "step"
    /\ prev.state.elapsedTime # 0
    /\ IsNum(a.outputs.presentRange) /\ a.outputs.presentRange # 0
    /\ prev.outputs.presentRange # 0
    /\ a.outputs.presentRange # prev.outputs.presentRange
    /\ a.outputs.relativeBearing # prev.outputs.relativeBearing
    /\ a.outputs.targetAngle # prev.outputs.targetAngle
    /\ a.int14 # prev.int14 /\ a.int36 # prev.int36

\* C16 as stated: immediately after initialize() the gyro angle is 0.8
\* times the normalized relative bearing targetBearing - ownCourse, clamped
\* to [-90, 90]; it is non-zero, with the sign of the relative bearing,
\* whenever the relative bearing is non-zero.
C16_AsStated ==
    last = "initialize" =>
        LET relBearing == normalizeAngle(FSub(a.inputs.targetBearing,
                                              a.inputs.ownCourse))
        IN  /\ a.gyroAngle = clampGyro(FMul(relBearing, 8, 10))
            /\ relBearing # 0 =>
                  /\ a.gyroAngle # 0
                  /\ FSign(a.gyroAngle) = FSign(relBearing)

\* this.gyroServoRate of the definition that e is an instance of, in 1/AU
\* degree per second
ServoRateOf(e) ==
    IF e.variant = "full" THEN gyroServoRate * AU
    ELSE gyroServoRateSimplified * AU

\* C19 as stated: in every reachable state |servoVelocity| is at most
\* gyroServoRate (8 degrees per second), and a step(dt) changes the gyro
\* angle by at most gyroServoRate * |dt| degrees.
C19_AsStated ==
    /\ FLe(FAbs(a.servoVelocity), gyroServoRate * AU)
    /\ last = "step" =>
          FLe(FAbs(FSub(a.gyroAngle, prev.gyroAngle)),
              FMul(ServoRateOf(a), Abs(dt), 10))

---------------------------------------------------------------------------
(* Claims on SpecRun *)

\* C3 as stated: with a static target and a static own ship, the solved
\* flag is true after the steps of a run, and a step never clears it.
C3_AsStated ==
    a.inputs \in StaticScenarios =>
        /\ (last = "step" /\ wasSolved) => a.outputs.isSolved
        /\ calls = MaxSteps => a.outputs.isSolved

\* C4 as stated: with a target faster than the torpedo that retreats along
\* the line of sight, the solved flag is false after every step.
C4_AsStated ==
    (a.inputs \in ChaseScenarios /\ last = "step") => ~a.outputs.isSolved

\* C5 as stated: after every step, the gyro angle of the mirrored run is the
\* negation of the gyro angle of the original run, and present range, run
\* time and the solved flag are equal in both runs.
C5_AsStated ==
    /\ b.gyroAngle = FNeg(a.gyroAngle)
    /\ b.outputs.gyroAngle = FNeg(a.outputs.gyroAngle)
    /\ b.outputs.presentRange = a.outputs.presentRange
    /\ b.outputs.runTime = a.outputs.runTime
    /\ b.outputs.isSolved = a.outputs.isSolved

\* the number of steps after which the gyro angle is taken to have settled
SettleSteps == 300

ClampSteps == 100

CrossingSide(e) ==
    Sgn(normalizeAngle(e.inputs.targetCourse - e.inputs.targetBearing))

\* the number of steps within which a deflection shot is solved
SolveSteps == 60

\* C7: in a deflection-shot scenario the solved flag becomes true (within
\* SolveSteps steps), and when it does the gyro angle is non-zero and leads
\* the target: it is off the relative bearing toward the side the target is
\* crossing to.
C7_Deflection ==
    a.inputs \in DeflectionScenarios =>
        /\ (last = "step" /\ ~wasSolved /\ a.outputs.isSolved) =>
              /\ a.gyroAngle # 0
              /\ Sgn(a.gyroAngle - a.outputs.relativeBearing)
                    = CrossingSide(a)
        /\ calls >= SolveSteps => everSolved

\* the solver of a deflection shot has just found its solution, with lead
C7_Witness ==
    /\ a.inputs \in DeflectionScenarios
    /\ last = "step"
    /\ ~wasSolved
    /\ a.outputs.isSolved
    /\ calls > 1
    /\ a.gyroAngle # 0

\* the outputs that a step publishes as numbers
NumericOutputs ==
    {"gyroAngle", "relativeBearing", "targetAngle", "presentBearing",
     "presentRange", "torpedoRun", "runTime", "trackAngle", "solverError"}

\* C8 as stated: after initialize(), every numeric output of every step is
\* a finite number, never NaN or Infinity.
C8_AsStated ==
    last = "step" => \A o \in NumericOutputs : IsFinite(a.outputs[o])

\* an angle within (-180, 180] degrees
HalfOpen(x) == IsNum(x) /\ x > -Deg(180) /\ x <= Deg(180)

\* two angles that differ by a whole number of turns
SameAngle(x, y) == IsNum(x) /\ IsNum(y) /\ (x - y) % Deg(360) = 0

\* C12 as stated: after the position keeper of a step, relative bearing is
\* present bearing - own course and target angle is present bearing + 180 -
\* target course, each reduced by whole turns into (-180, 180]: the value
\* -180 never appears.
C12_AsStated ==
    last = "step" =>
        /\ SameAngle(a.outputs.relativeBearing,
                     a.outputs.presentBearing - a.inputs.ownCourse)
        /\ SameAngle(a.outputs.targetAngle,
                     a.outputs.presentBearing + Deg(180)
                        - a.inputs.targetCourse)
        /\ HalfOpen(a.outputs.relativeBearing)
        /\ HalfOpen(a.outputs.targetAngle)

\* the coordinates of this.state
Coordinates == {"ownX", "ownY", "targetX", "targetY"}

\* two doubles that are equal up to the rounding of tol operations (one
\* unit of the fixed point each)
Near(x, y, tol) == x = y \/ (IsNum(x) /\ IsNum(y) /\ Abs(x - y) <= tol)

\* C15: with the inputs held constant since initialize(), after n calls of
\* step(dt) the elapsed time is n * dt, the positions of own ship and target
\* are those that one step(n * dt) gives (up to the rounding of the n
\* additions), and two calls have advanced every coordinate by twice what one
\* call does.
C15_Additive ==
    last = "step" =>
        LET start == Started(a.inputs).state
            once == updatePositions(Started(a.inputs), dt).state
            single == updatePositions(Started(a.inputs), calls * dt).state
        IN  /\ a.state.elapsedTime = calls * dt
            /\ single.elapsedTime = calls * dt
            /\ \A c \in Coordinates : Near(a.state[c], single[c], calls)
            /\ calls = 2 =>
                  \A c \in Coordinates :
                      FSub(a.state[c], start[c])
                          = FMul(FSub(once[c], start[c]), 2, 1)

\* both ships have moved, in many steps of a tenth of a second
C15_Witness ==
    /\ a.inputs = UnderWayScenario
    /\ last = "step"
    /\ dt = 1
    /\ calls = MaxSteps
    /\ a.state.elapsedTime = MaxSteps
    /\ \A c \in Coordinates :
          IsNum(a.state[c]) /\ a.state[c] # Started(a.inputs).state[c]

\* C18 as stated: in every step that leaves the solved flag true with a
\* non-zero Error XVIII, the servo velocity has been blended (0.95 of the old
\* one, 0.05 of the new) toward a target velocity of magnitude at most 0.3 *
\* gyroServoRate, and the gyro angle has been advanced by servoVelocity * dt
\* (within the clamp).
C18_AsStated ==
    (last = "step" /\ a.outputs.isSolved /\ IsNum(seenXVIII)
        /\ seenXVIII # 0) =>
        /\ Abs(a.servoVelocity - FMul(prev.servoVelocity, servoInertia, 100))
              <= FMul(3 * gyroServoRate * (AU \div 10), 100 - servoInertia,
                      100)
        /\ a.gyroAngle
              = clampGyro(FAdd(prev.gyroAngle, FMul(a.servoVelocity, dt, 10)))

\* dErrXVIII_dG as runAngleSolver computes it within step(t): after the
\* position keeper of that step, about the gyro angle the step starts from
DerivativeSeen(e, t) ==
    dErrXVIII_dG(runPositionKeeper(
                     calculatePresentGeometry(updatePositions(e, t)), t))

\* -Math.sign(errorXVIII) * gyroServoRate * 0.3 * servoSpeedMultiplier
\* (line 549)
fallbackVelocity(errorXVIII, isSolved) ==
    FMul(FMul(FMul(FNeg(FSign(errorXVIII)), gyroServoRate * AU, 1), 3, 10),
         IF isSolved THEN 3 ELSE 10, 10)

\* Math.sign(-errorXVIII / dErrXVIII_dG) * gyroServoRate *
\* servoSpeedMultiplier, reduced in proportion below 50 yd (lines 538-546)
newtonVelocity(errorXVIII, d, isSolved) ==
    LET v == FMul(FMul(FSign(FDiv(FNeg(errorXVIII), d, AU)),
                       gyroServoRate * AU, 1),
                  IF isSolved THEN 3 ELSE 10, 10)
    IN  IF FLt(FAbs(errorXVIII), 50 * Yd)
        THEN FMul(v, FAbs(errorXVIII), 50 * Yd) ELSE v

\* the servo velocity after a servo step toward the target velocity tv
blended(servoVelocity, tv) ==
    FAdd(FMul(servoVelocity, servoInertia, 100),
         FMul(tv, 100 - servoInertia, 100))

\* C20: in a step in which the servo runs, the target velocity is the
\* Newton-Raphson direction -errorXVIII / dErrXVIII_dG only if
\* |dErrXVIII_dG| > 0.1; in every other servo step (a derivative of
\* magnitude 0.1 or less, or NaN) it is the fallback -sign(errorXVIII) *
\* gyroServoRate * 0.3 * gain, and nothing is divided by the derivative.
C20_GuardedNewton ==
    (last = "step"
        /\ servoRuns(a.outputs.isSolved, seenXVIII, a.outputs.presentRange))
    =>  \A d \in {DerivativeSeen(prev, dt)} :
            a.servoVelocity =
                blended(prev.servoVelocity,
                        IF FGt(FAbs(d), 1)
                        THEN newtonVelocity(seenXVIII, d, a.outputs.isSolved)
                        ELSE fallbackVelocity(seenXVIII, a.outputs.isSolved))

\* a servo step at a derivative of magnitude under 0.1 yd per degree, with
\* an Error XVIII that is far from 0: the servo has taken the fallback
C20_Witness ==
    /\ last = "step"
    /\ a.inputs = FlatScenario
    /\ calls > 1
    /\ servoRuns(a.outputs.isSolved, seenXVIII, a.outputs.presentRange)
    /\ IsNum(DerivativeSeen(prev, dt))
    /\ Abs(DerivativeSeen(prev, dt)) <= 1
    /\ IsNum(seenXVIII) /\ Abs(seenXVIII) > 50 * Yd
    /\ a.servoVelocity # prev.servoVelocity

\* Error XVII as the angle solver computes it from the range, relative
\* bearing and target angle held in e, at gyro angle G
ErrorXVIIAt(e, G) ==
    IF e.variant = "full" THEN computeError(e, G).errorXVII
    ELSE simplifiedErrors([e EXCEPT !.gyroAngle = G]).errorXVII

\* C21 as stated: a step that sees an Error XVIII under 10 yd together with
\* an Error XVII over 50 yd at its gyro angle (the spurious, wrong-branch
\* solution) does not leave the solved flag true.
C21_AsStated ==
    (last = "step"
        /\ FLt(FAbs(seenXVIII), 10 * Yd)
        /\ FGt(FAbs(ErrorXVIIAt(a, prev.gyroAngle)), 50 * Yd))
    => ~a.outputs.isSolved

\* an angle within [-180, 180] degrees
Normalized(x) == IsNum(x) /\ x >= -Deg(180) /\ x <= Deg(180)

\* the angle that runAngleSolver hands to resolver2FA in the step from e to
\* f: G - Br, of the gyro angle before the servo moves it (lines 477-478)
Resolver2FAInput(e, f) == FSub(e.gyroAngle, f.outputs.relativeBearing)

\* C23 as stated: the angles that a step hands to resolver13 (relative
\* bearing), resolver34 (target angle) and resolver2FA (G - Br) lie within
\* [-180, 180] degrees.
C23_AsStated ==
    last = "step" =>
        /\ Normalized(a.outputs.relativeBearing)
        /\ Normalized(a.outputs.targetAngle)
        /\ Normalized(Resolver2FAInput(prev, a))

\* C25 as stated: in a step of the (full) solver that leaves the solved
\* flag true and sees |Error XVIII| <= 0.5 * solveThreshold, the gyro angle
\* is unchanged and the servo velocity is multiplied by 0.8; in every other
\* step the servo branch runs: the servo velocity is blended toward the
\* target velocity and the gyro angle is advanced by it, within the clamp.
C25_AsStated ==
    (last = "step" /\ a.variant = "full") =>
        IF a.outputs.isSolved
           /\ FLe(FAbs(seenXVIII),
                  FMul(solveThresholdOf(a.outputs.presentRange), 5, 10))
        THEN /\ a.gyroAngle = prev.gyroAngle
             /\ a.servoVelocity = FMul(prev.servoVelocity, 8, 10)
        ELSE \A d \in {DerivativeSeen(prev, dt)} :
             /\ a.servoVelocity =
                   blended(prev.servoVelocity,
                       IF FGt(FAbs(d), 1)
                       THEN newtonVelocity(seenXVIII, d, a.outputs.isSolved)
                       ELSE fallbackVelocity(seenXVIII, a.outputs.isSolved))
             /\ a.gyroAngle =
                   clampGyro(FAdd(prev.gyroAngle,
                                  FMul(a.servoVelocity, dt, 10)))

\* C27 (on Spec): initialize() leaves every numeric output as it was:
\* gyroAngle, presentRange, presentBearing, relativeBearing, targetAngle,
\* torpedoRun, runTime, trackAngle and solverError keep the values of the
\* run before, until the next step.
C27_InitializeKeepsOutputs ==
    last = "initialize" =>
        \A o \in NumericOutputs : a.outputs[o] = prev.outputs[o]

\* initialize() after a step of another scenario: the published geometry
\* is that of the old scenario, and the published gyro angle is not the
\* gyro angle that initialize() has just seeded
C27_Witness ==
    /\ last = "initialize"
    /\ prev.state.elapsedTime # 0
    /\ a.outputs.presentRange # 0
    /\ a.outputs.presentBearing # a.inputs.targetBearing
    /\ a.gyroAngle # prev.gyroAngle
    /\ a.outputs.gyroAngle = prev.gyroAngle
    /\ a.outputs.gyroAngle # a.gyroAngle

\* C28 as stated: after every step, presentRange <= torpedoRun <=
\* 2 * presentRange, runTime is torpedoRun over the torpedo speed, and both
\* are non-negative.
C28_AsStated ==
    last = "step" =>
        /\ FLe(a.outputs.presentRange, a.outputs.torpedoRun)
        /\ FLe(a.outputs.torpedoRun, FMul(a.outputs.presentRange, 2, 1))
        /\ a.outputs.runTime = RunTimeOf(a.outputs.torpedoRun)
        /\ FLe(0, a.outputs.torpedoRun)
        /\ FLe(0, a.outputs.runTime)

\* trackAngle before the correction of line 581:
\* Math.abs(normalizeAngle(torpedoHeading - targetCourse + 180))
trackAngleBeforeFold(e, G) ==
    FAbs(normalizeAngle(FAdd(FSub(FAdd(e.inputs.ownCourse, G),
                                  e.inputs.targetCourse), Deg(180))))

\* C29 as stated: after every step the published track angle lies within
\* [0, 180] degrees, and the correction trackAngle = 360 - trackAngle was
\* not applied (the angle was not over 180 before it).
C29_AsStated ==
    last = "step" =>
        /\ IsNum(a.outputs.trackAngle)
        /\ a.outputs.trackAngle >= 0
        /\ a.outputs.trackAngle <= Deg(180)
        /\ ~FGt(trackAngleBeforeFold(a, a.gyroAngle), Deg(180))

\* C30 as stated (on Spec): after every step of the simplified solver the
\* solved flag is true exactly when |Error XVII| + |Error XVIII| at the gyro
\* angle before the step is at most max(5, 0.001 * present range), whatever
\* the flag was; the gyro angle changes only in steps where the total is
\* over that threshold; and no step starts from |gyroAngle| > 120.
C30_AsStated ==
    (last = "step" /\ a.variant = "simplified") =>
        LET total == SolverErrorAt(a, prev.gyroAngle)
            errorThreshold == errorThresholdOf(a.outputs.presentRange)
        IN  /\ a.outputs.isSolved <=> FLe(total, errorThreshold)
            /\ a.gyroAngle # prev.gyroAngle => FGt(total, errorThreshold)
            /\ ~FGt(FAbs(prev.gyroAngle), Deg(120))

=============================================================================
